---- MODULE Spec2Model ----
(***************************************************************************)
(* The BVH accelerator of src/src/BVHAccelerator.c: the recursive build    *)
(* (build_bvh_accel, build_bvh, find_median) over a heap of BVHNode        *)
(* records, and the stack-based nearest-hit traversal (intersect_bvh_loop) *)
(* run by independent query threads.                                       *)
(*                                                                         *)
(* Reals: every coordinate and every ray parameter of the model is a small *)
(* integer and ray directions have components in {-1, 0, 1}, so the double *)
(* arithmetic of the code is exact on the model's values.  A centroid      *)
(* (max + min) / 2 is kept doubled (max + min), which preserves every      *)
(* comparison the code makes on centroids.                                 *)
(***************************************************************************)
EXTENDS Integers, Sequences, FiniteSets, TLC

VARIABLES
    primset,      \* the primitive source: sequence of primitives, prim i is primset[i + 1]
    root,         \* bvh->root: a node id, NULL before a successful build
    heap,         \* node id -> BVHNode record, for every node ever allocated
    allocated,    \* node ids allocated and not freed
    primptrs,     \* build: the primptrs array, position 0..N-1 -> index into prims
    bstack,       \* build: the call stack of build_bvh, innermost frame last
    bret,         \* build: the value the last build_bvh call returned
    bpc,          \* build: "idle" | "running"
    buildResult,  \* build_bvh_accel: "none" (not called) | "ok" (returned 0) | "error" (returned -1)
    bfailed,      \* build: whether an allocation of this build has failed
    nbuilds,      \* the calls of build_bvh_accel made on this index
    bsplits,      \* build: the qsort/find_median calls of this build, in order
    freed,        \* the node ids handed to MEM_FREE, in order
    accel,        \* the index instance: "live" | "freed"
    qpc,          \* query q: "idle" | "loop" | "exit" | "done"
    qray,         \* query q: the ray
    qtime,        \* query q: the time
    qnode,        \* query q: the local 'node'
    qstack,       \* stack slot -> the BVHNodeStack entries (a sequence of node ids)
    qcand,        \* query q: isect_candidates[0..1], kept as a pair <<c0, c1>>
    qmin,         \* query q: which candidate isect_min points to (1 or 2)
    qhit,         \* query q: the local 'hit'
    qout,         \* query q: the caller's *isect
    qresult,      \* query q: the value intersect_bvh_loop returned, once qpc is "done"
    qfault,       \* query q: "none" or the assertion that failed
    qvisited      \* query q: the nodes that were 'node' at the top of an iteration, in order

bvars == <<root, heap, allocated, primptrs, bstack, bret, bpc, buildResult, bfailed,
           nbuilds, bsplits>>
lvars == <<freed, accel>>
qvars == <<qpc, qray, qtime, qnode, qstack, qcand, qmin, qhit, qout, qresult, qfault,
           qvisited>>
vars == <<primset, bvars, lvars, qvars>>

(***************************************************************************)
(* Program constants                                                       *)
(***************************************************************************)
NULL == 0
NO_PRIM == -1
BVH_STACKSIZE == 64
\* float.h FLT_MAX, the "no hit" distance; it exceeds every distance of the model
FLT_MAX == 1000000

(***************************************************************************)
(* Bounds of the model                                                     *)
(***************************************************************************)
\* most primitives in a primitive source
MaxPrims == 3
\* most primitives in a primitive source drawn from the small pool
MaxPrimsDeep == 4
\* most primitives, drawn from the small pool, when two queries run interleaved
MaxPrimsConc == 2
\* most primitives, drawn from the small pool, when the index is rebuilt and destroyed
MaxPrimsLife == 2
\* most calls of build_bvh_accel on one index
MaxBuilds == 2
\* longest array, and largest doubled centroid, of the sorted arrays find_median
\* is applied to directly
MaxRange == 5
MaxCentroid == 3

AllQueries == {1, 2}
Axes == {1, 2, 3}

Max2(a, b) == IF a >= b THEN a ELSE b
Min2(a, b) == IF a <= b THEN a ELSE b
SetMax(S) == CHOOSE x \in S : \A y \in S : y <= x
SetMin(S) == CHOOSE x \in S : \A y \in S : x <= y

(***************************************************************************)
(* Box collaborator (Box.c is not part of the sources): slab test clipped  *)
(* to [tmin, tmax], and box union.                                         *)
(***************************************************************************)
\* the parametric interval in which the line orig + t * dir is inside the
\* slab [lo, hi] of one axis: <<enter, exit>>; d is -1 or 1
SlabEnter(lo, hi, o, d) == IF d > 0 THEN lo - o ELSE o - hi
SlabExit(lo, hi, o, d) == IF d > 0 THEN hi - o ELSE o - lo

\* axes along which the ray moves, and whether it stays inside the others
MovingAxes(ray) == {a \in Axes : ray.dir[a] # 0}
InsideStill(box, ray) ==
    \A a \in Axes \ MovingAxes(ray) :
        box.min[a] <= ray.orig[a] /\ ray.orig[a] <= box.max[a]
LineEnter(box, ray) ==
    SetMax({SlabEnter(box.min[a], box.max[a], ray.orig[a], ray.dir[a]) : a \in MovingAxes(ray)})
LineExit(box, ray) ==
    SetMin({SlabExit(box.min[a], box.max[a], ray.orig[a], ray.dir[a]) : a \in MovingAxes(ray)})

BoxRayIntersect(box, ray) ==
    /\ InsideStill(box, ray)
    /\ Max2(LineEnter(box, ray), ray.tmin) <= Min2(LineExit(box, ray), ray.tmax)

BoxAddBox(b0, b1) ==
    [min |-> [a \in Axes |-> Min2(b0.min[a], b1.min[a])],
     max |-> [a \in Axes |-> Max2(b0.max[a], b1.max[a])]]

(***************************************************************************)
(* Primitive source collaborator (PrimitiveSet.c is not part of the        *)
(* sources).  A primitive is its bounding box and a surface:               *)
(*   "near"   hit where the ray enters the box                            *)
(*   "far"    hit where the ray leaves the box                             *)
(*   "moving" hit at the entry at time 0 and at the exit at time 1         *)
(*   "stray"  hit one unit behind the exit, outside its own bounds         *)
(* A ray whose line misses the box misses the primitive.  The reported t   *)
(* is not clipped to the ray's range.                                      *)
(***************************************************************************)
MkBox(x0, x1, y0, y1, z0, z1) == [min |-> <<x0, y0, z0>>, max |-> <<x1, y1, z1>>]

PrimPool ==
    { [bounds |-> MkBox(1, 3, 0, 2, 0, 2), surf |-> "far"],
      [bounds |-> MkBox(2, 4, 0, 2, 0, 2), surf |-> "near"],
      [bounds |-> MkBox(5, 7, 0, 2, 0, 2), surf |-> "moving"],
      [bounds |-> MkBox(1, 3, 4, 6, 0, 2), surf |-> "near"],
      [bounds |-> MkBox(1, 2, 0, 2, 0, 2), surf |-> "stray"] }

\* the part of the pool the deeper trees are built from
DeepPool == {p \in PrimPool : p.bounds.min[1] <= 2 /\ p.surf # "stray"}

PrmGetPrimitiveCount == Len(primset)
PrmGetPrimitiveBounds(i) == primset[i + 1].bounds

\* [hit |-> 0 or 1, t_hit, prim_id]: what PrmRayIntersect reports and, on a hit,
\* writes to the intersection
PrmRayIntersect(i, time, ray) ==
    LET p == primset[i + 1]
        box == p.bounds
        on == InsideStill(box, ray) /\ LineEnter(box, ray) <= LineExit(box, ray)
        t == CASE p.surf = "near" -> LineEnter(box, ray)
               [] p.surf = "far" -> LineExit(box, ray)
               [] p.surf = "moving" ->
                      IF time = 0 THEN LineEnter(box, ray) ELSE LineExit(box, ray)
               [] p.surf = "stray" -> LineExit(box, ray) + 1
    IN  IF on
        THEN [hit |-> 1, t_hit |-> t, prim_id |-> i]
        ELSE [hit |-> 0, t_hit |-> FLT_MAX, prim_id |-> NO_PRIM]

(***************************************************************************)
(* Build: the Primitive records and the comparators                        *)
(***************************************************************************)
\* twice prims[i].centroid[axis], axis 0..2
Centroid2(i, axis) ==
    PrmGetPrimitiveBounds(i).max[axis + 1] + PrmGetPrimitiveBounds(i).min[axis + 1]

\* a plausible slip: the index of the record is never filled in
PrimRecord_noindex(i) ==
    [bounds |-> PrmGetPrimitiveBounds(i),
     centroid |-> [a \in 0..2 |-> Centroid2(i, a)],
     index |-> 0]

\* prims[i] as build_bvh_accel fills it
PrimRecord(i) ==
    [bounds |-> PrmGetPrimitiveBounds(i),
     centroid |-> [a \in 0..2 |-> Centroid2(i, a)],
     index |-> i]

\* a plausible slip: the signs are exchanged, the sort descends
compare_double_reversed(x, y) == IF x > y THEN -1 ELSE IF x < y THEN 1 ELSE 0

compare_double(x, y) == IF x > y THEN 1 ELSE IF x < y THEN -1 ELSE 0

\* primitive_compare_x / _y / _z on two entries of the pointer array
primitive_compare(axis, a, b) ==
    compare_double(PrimRecord(a).centroid[axis], PrimRecord(b).centroid[axis])

\* every outcome qsort may leave in ptrs[begin..end-1]: the same entries in an
\* order the comparator accepts (entries that compare equal land in any order)
QsortOutcomes(ptrs, begin, end, axis) ==
    LET R == begin..(end - 1)
        Perms == {f \in [R -> R] : \A i, j \in R : i # j => f[i] # f[j]}
        Arr(f) == [i \in DOMAIN ptrs |-> IF i \in R THEN ptrs[f[i]] ELSE ptrs[i]]
    IN  {g \in {Arr(f) : f \in Perms} :
            \A i \in R : i + 1 \in R => primitive_compare(axis, g[i], g[i + 1]) <= 0}

RECURSIVE find_median_loop(_, _, _, _, _)
\* the while loop of find_median and its return; cen[i] is twice
\* prims[i]->centroid[axis], key4 is four times 'key'
find_median_loop(cen, key4, low, high, mid) ==
    IF low = mid
    THEN mid + 1
    ELSE LET m == (low + high) \div 2
             c4 == 2 * cen[m]
         IN  IF key4 < c4 THEN find_median_loop(cen, key4, low, m, m)
             ELSE IF c4 < key4 THEN find_median_loop(cen, key4, m, high, m)
             ELSE m + 1

\* a plausible slip: mid is returned, not mid + 1
find_median_on_mid(cen, begin, end) ==
    find_median_loop(cen, cen[begin] + cen[end - 1], begin, end - 1, -1) - 1

\* a plausible slip: a full search for the first element not below key
find_median_on_transition(cen, begin, end) ==
    begin + Cardinality({i \in begin..(end - 1) : 2 * cen[i] < cen[begin] + cen[end - 1]})

\* a plausible slip: a full search for the first element above key
find_median_on_upper(cen, begin, end) ==
    begin + Cardinality({i \in begin..(end - 1) : 2 * cen[i] <= cen[begin] + cen[end - 1]})

\* find_median on the doubled centroids cen of the array, by position
find_median_on(cen, begin, end) ==
    find_median_loop(cen, cen[begin] + cen[end - 1], begin, end - 1, -1)

\* twice the centroids along axis of the entries of the pointer array, by position
CentroidsAlong(ptrs, axis) == [i \in DOMAIN ptrs |-> PrimRecord(ptrs[i]).centroid[axis]]

\* a plausible slip: split off the last element only
find_median_last(ptrs, begin, end, axis) == end - 1

find_median(ptrs, begin, end, axis) ==
    find_median_on(CentroidsAlong(ptrs, axis), begin, end)

(***************************************************************************)
(* Build: nodes                                                            *)
(***************************************************************************)
ZeroBox == [min |-> <<0, 0, 0>>, max |-> <<0, 0, 0>>]

\* a plausible slip: the primitive index starts at 0, a valid index
new_bvhnode_zero == [left |-> NULL, right |-> NULL, bounds |-> ZeroBox, prim_id |-> 0]

new_bvhnode == [left |-> NULL, right |-> NULL, bounds |-> ZeroBox, prim_id |-> NO_PRIM]

is_bvh_leaf(node) == node.left = NULL /\ node.right = NULL /\ node.prim_id # NO_PRIM

\* a plausible slip: the test is for an empty range
IsLeafRange_zero(begin, end) == end - begin = 0

\* a plausible slip: ranges of two are made leaves too
IsLeafRange_two(begin, end) == end - begin <= 2

\* NPRIMS == 1
IsLeafRange(begin, end) == end - begin = 1

\* a plausible slip: reads the record array at the position, not through the pointer
LeafOf_unsorted(node, ptrs, begin) ==
    [node EXCEPT !.prim_id = PrimRecord(ptrs[begin]).index,
                 !.bounds = PrimRecord(begin).bounds]

\* a plausible slip: the primitive is not recorded in the leaf
LeafOf_noid(node, ptrs, begin) ==
    [node EXCEPT !.bounds = PrimRecord(ptrs[begin]).bounds]

\* the leaf build_bvh makes of primptrs[begin]
LeafOf(node, ptrs, begin) ==
    [node EXCEPT !.prim_id = PrimRecord(ptrs[begin]).index,
                 !.bounds = PrimRecord(ptrs[begin]).bounds]

\* a plausible slip: the right child's box is never added
InternalBounds_left(lb, rb) == lb

\* node->bounds = node->left->bounds; BoxAddBox(&node->bounds, &node->right->bounds)
InternalBounds(lb, rb) == BoxAddBox(lb, rb)

\* a plausible slip: the children are split along the axis of their parent
NextAxis_same(axis) == axis

\* the switch on axis: the axis the children are split along
NextAxis(axis) == (axis + 1) % 3

Frame(begin, end, axis) ==
    [begin |-> begin, end |-> end, axis |-> axis, pc |-> "enter",
     node |-> NULL, median |-> 0, new_axis |-> 0]

Top == bstack[Len(bstack)]
Pop == SubSeq(bstack, 1, Len(bstack) - 1)
ReplaceTop(f) == [bstack EXCEPT ![Len(bstack)] = f]

QueriesQuiet == \A q \in AllQueries : qpc[q] \in {"idle", "done"}

(***************************************************************************)
(* Build actions.  Each allocation succeeds or fails.                      *)
(***************************************************************************)
\* build_bvh_accel up to its call of build_bvh: the two arrays are allocated
\* and filled, or the build returns -1 at once
BuildAccelCall ==
    /\ bpc = "idle"
    /\ accel = "live"
    /\ QueriesQuiet
    /\ nbuilds' = nbuilds + 1
    /\ \E fail \in {"no", "prims", "primptrs"} :
          IF fail # "no"
          THEN /\ buildResult' = "error"
               /\ bfailed' = TRUE
               /\ UNCHANGED <<root, heap, allocated, primptrs, bstack, bret, bpc, bsplits>>
          ELSE /\ primptrs' = [i \in 0..(PrmGetPrimitiveCount - 1) |-> PrimRecord(i).index]
               /\ bstack' = <<Frame(0, PrmGetPrimitiveCount, 0)>>
               /\ bpc' = "running"
               /\ bfailed' = FALSE
               /\ bsplits' = <<>>
               /\ UNCHANGED <<root, heap, allocated, bret, buildResult>>
    /\ UNCHANGED <<primset, lvars, qvars>>

\* the first build of an index
BuildAccelBegin ==
    /\ buildResult = "none"
    /\ BuildAccelCall

\* build_bvh_accel called again on an index it has already returned from
RebuildAccelBegin ==
    /\ buildResult # "none"
    /\ nbuilds < MaxBuilds
    /\ BuildAccelCall

\* build_bvh from its entry to its first recursive call, or to its return
\* (allocation failed, or a leaf)
BuildBvhEnter ==
    /\ bpc = "running"
    /\ bstack # <<>>
    /\ Top.pc = "enter"
    /\ \E ok \in BOOLEAN :
          LET f == Top
              nid == Len(heap) + 1
          IN  IF ~ok
              THEN /\ bret' = NULL
                   /\ bstack' = Pop
                   /\ bfailed' = TRUE
                   /\ UNCHANGED <<heap, allocated, primptrs, bsplits>>
              ELSE IF IsLeafRange(f.begin, f.end)
              THEN /\ heap' = Append(heap, LeafOf(new_bvhnode, primptrs, f.begin))
                   /\ allocated' = allocated \cup {nid}
                   /\ bret' = nid
                   /\ bstack' = Pop
                   /\ UNCHANGED <<primptrs, bfailed, bsplits>>
              ELSE \E sorted \in QsortOutcomes(primptrs, f.begin, f.end, f.axis) :
                      LET median == find_median(sorted, f.begin, f.end, f.axis)
                          new_axis == NextAxis(f.axis)
                      IN  /\ primptrs' = sorted
                          /\ heap' = Append(heap, new_bvhnode)
                          /\ allocated' = allocated \cup {nid}
                          /\ bstack' = Append(
                                 ReplaceTop([f EXCEPT !.pc = "left", !.node = nid,
                                                      !.median = median,
                                                      !.new_axis = new_axis]),
                                 Frame(f.begin, median, new_axis))
                          /\ bsplits' = Append(bsplits,
                                 [begin |-> f.begin, end |-> f.end, axis |-> f.axis,
                                  median |-> median, depth |-> Len(bstack) - 1,
                                  cen |-> [i \in f.begin..(f.end - 1) |->
                                              CentroidsAlong(sorted, f.axis)[i]]])
                          /\ UNCHANGED <<bret, bfailed>>
    /\ UNCHANGED <<primset, root, bpc, buildResult, nbuilds, lvars, qvars>>

\* a plausible slip: the half-built node is handed back when a child failed
ChildFailed_node(node) == node

\* what build_bvh returns when a recursive call returned NULL
ChildFailed(node) == NULL

\* build_bvh after its left call returned: store the child, give up or call right
BuildBvhLeftDone ==
    /\ bpc = "running"
    /\ bstack # <<>>
    /\ Top.pc = "left"
    /\ LET f == Top IN
          /\ heap' = [heap EXCEPT ![f.node].left = bret]
          /\ IF bret = NULL
             THEN /\ bret' = ChildFailed(f.node)
                  /\ bstack' = Pop
             ELSE /\ bstack' = Append(ReplaceTop([f EXCEPT !.pc = "right"]),
                                      Frame(f.median, f.end, f.new_axis))
                  /\ UNCHANGED bret
    /\ UNCHANGED <<primset, root, allocated, primptrs, bpc, buildResult, bfailed,
                   nbuilds, bsplits, lvars, qvars>>

\* build_bvh after its right call returned: store the child, give up or set
\* the bounds and return the node
BuildBvhRightDone ==
    /\ bpc = "running"
    /\ bstack # <<>>
    /\ Top.pc = "right"
    /\ LET f == Top IN
          IF bret = NULL
          THEN /\ heap' = [heap EXCEPT ![f.node].right = bret]
               /\ bret' = ChildFailed(f.node)
               /\ bstack' = Pop
          ELSE /\ heap' = [heap EXCEPT
                      ![f.node].right = bret,
                      ![f.node].bounds =
                          InternalBounds(heap[heap[f.node].left].bounds, heap[bret].bounds)]
               /\ bret' = f.node
               /\ bstack' = Pop
    /\ UNCHANGED <<primset, root, allocated, primptrs, bpc, buildResult, bfailed,
                   nbuilds, bsplits, lvars, qvars>>

\* build_bvh_accel after build_bvh returned: the root is stored, the arrays
\* are freed, 0 or -1 is returned
BuildAccelEnd ==
    /\ bpc = "running"
    /\ bstack = <<>>
    /\ root' = bret
    /\ buildResult' = IF bret = NULL THEN "error" ELSE "ok"
    /\ bpc' = "idle"
    /\ primptrs' = <<>>
    /\ bret' = NULL
    /\ UNCHANGED <<primset, heap, allocated, bstack, bfailed, nbuilds, bsplits, lvars, qvars>>

(***************************************************************************)
(* Destroy: free_bvh_accel and free_bvhnode_recursive                      *)
(***************************************************************************)
\* a plausible slip: the node is freed, its subtrees are not
FreeInternal_only(node, left_frees, right_frees) == <<node>>

\* the frees of an internal node: those of the left call, those of the right
\* call, then the node itself
FreeInternal(node, left_frees, right_frees) == left_frees \o right_frees \o <<node>>

RECURSIVE free_bvhnode_recursive(_)
\* the node ids free_bvhnode_recursive(node) hands to MEM_FREE, in order
free_bvhnode_recursive(node) ==
    IF node = NULL THEN <<>>
    ELSE IF is_bvh_leaf(heap[node]) THEN <<node>>
    ELSE FreeInternal(node, free_bvhnode_recursive(heap[node].left),
                      free_bvhnode_recursive(heap[node].right))

RECURSIVE FreeAssertsHold(_)
\* the three assertions free_bvhnode_recursive makes on a node that is not a leaf
FreeAssertsHold(node) ==
    \/ node = NULL
    \/ is_bvh_leaf(heap[node])
    \/ /\ heap[node].left # NULL
       /\ heap[node].right # NULL
       /\ heap[node].prim_id = NO_PRIM
       /\ FreeAssertsHold(heap[node].left)
       /\ FreeAssertsHold(heap[node].right)

\* free_bvh_accel on a live index, no build and no query running
Destroy ==
    /\ accel = "live"
    /\ bpc = "idle"
    /\ QueriesQuiet
    /\ LET frees == free_bvhnode_recursive(root)
       IN  /\ freed' = freed \o frees
           /\ allocated' = allocated \ {frees[i] : i \in DOMAIN frees}
    /\ accel' = "freed"
    /\ UNCHANGED <<primset, root, heap, primptrs, bstack, bret, bpc, buildResult, bfailed,
                   nbuilds, bsplits, qvars>>

(***************************************************************************)
(* Query: intersect_bvh_loop and its helpers                               *)
(***************************************************************************)
HIT_NONE == 0
HIT_LEFT == 1
HIT_RIGHT == 2
HIT_BOTH == 3

\* the ray/time pairs a caller may pass
MkRay(o, d, t0, t1) == [orig |-> o, dir |-> d, tmin |-> t0, tmax |-> t1]
QueryInputs ==
    { [ray |-> MkRay(<<0, 1, 1>>, <<1, 0, 0>>, 0, 10), time |-> 0],
      [ray |-> MkRay(<<0, 1, 1>>, <<1, 0, 0>>, 0, 10), time |-> 1],
      [ray |-> MkRay(<<0, 1, 1>>, <<1, 0, 0>>, 0, 2), time |-> 0],
      [ray |-> MkRay(<<0, 1, 1>>, <<1, 0, 0>>, 3, 10), time |-> 0],
      [ray |-> MkRay(<<0, 9, 9>>, <<1, 0, 0>>, 0, 10), time |-> 0],
      [ray |-> MkRay(<<2, 7, 1>>, <<0, -1, 0>>, 0, 10), time |-> 0],
      [ray |-> MkRay(<<0, 3, 1>>, <<1, 1, 0>>, 0, 10), time |-> 0],
      [ray |-> MkRay(<<0, 3, 1>>, <<1, 0, 0>>, 0, 10), time |-> 0] }

\* the caller's intersection before the call, and a candidate not yet written
CallerIsect == [t_hit |-> 0, prim_id |-> NO_PRIM]
FreshCandidates ==
    << [t_hit |-> FLT_MAX, prim_id |-> NO_PRIM], [t_hit |-> 0, prim_id |-> NO_PRIM] >>

\* a plausible slip: the range test is left out
prim_ray_intersect_norange(prim_id, time, ray, isect) ==
    LET r == PrmRayIntersect(prim_id, time, ray)
    IN  IF r.hit = 0
        THEN [hit |-> 0, isect |-> [isect EXCEPT !.t_hit = FLT_MAX]]
        ELSE [hit |-> 1, isect |-> [t_hit |-> r.t_hit, prim_id |-> r.prim_id]]

\* [hit, isect]: the return value and *isect afterwards
prim_ray_intersect(prim_id, time, ray, isect) ==
    LET r == PrmRayIntersect(prim_id, time, ray)
        got == [t_hit |-> r.t_hit, prim_id |-> r.prim_id]
    IN  IF r.hit = 0
        THEN [hit |-> 0, isect |-> [isect EXCEPT !.t_hit = FLT_MAX]]
        ELSE IF got.t_hit < ray.tmin \/ ray.tmax < got.t_hit
        THEN [hit |-> 0, isect |-> [got EXCEPT !.t_hit = FLT_MAX]]
        ELSE [hit |-> 1, isect |-> got]

\* a plausible slip: every hit of a leaf replaces the best one
LeafAccept_any(hittmp, t_tmp, t_min) == hittmp # 0

\* a plausible slip: a hit at the same distance replaces the best one too
LeafAccept_lesseq(hittmp, t_tmp, t_min) == hittmp # 0 /\ t_tmp <= t_min

\* hittmp && isect_tmp->t_hit < isect_min->t_hit
LeafAccept(hittmp, t_tmp, t_min) == hittmp # 0 /\ t_tmp < t_min

is_empty(stack) == Len(stack) = 0

\* [stack, ok]: the stack afterwards and whether the assertion held
push_node(stack, node) ==
    [stack |-> Append(stack, node), ok |-> Len(stack) + 1 < BVH_STACKSIZE]

\* a plausible slip: the top entry is read and depth is not decremented
pop_node_peek(stack) ==
    IF is_empty(stack)
    THEN [stack |-> stack, node |-> NULL, ok |-> FALSE]
    ELSE [stack |-> stack, node |-> stack[Len(stack)], ok |-> TRUE]

\* [stack, node, ok]
pop_node(stack) ==
    IF is_empty(stack)
    THEN [stack |-> stack, node |-> NULL, ok |-> FALSE]
    ELSE [stack |-> SubSeq(stack, 1, Len(stack) - 1), node |-> stack[Len(stack)], ok |-> TRUE]

\* a plausible slip: the goto is missing, the loop goes on with the same node
PopOrExit_noexit(L) ==
    IF is_empty(L.stack)
    THEN L
    ELSE LET p == pop_node(L.stack)
         IN  [L EXCEPT !.stack = p.stack, !.node = p.node,
                       !.fault = IF p.ok THEN @ ELSE "pop_node"]

\* a plausible slip: the loop is left as soon as a hit is held
PopOrExit_early(L) ==
    IF is_empty(L.stack) \/ L.hit # 0
    THEN [L EXCEPT !.pc = "exit"]
    ELSE LET p == pop_node(L.stack)
         IN  [L EXCEPT !.stack = p.stack, !.node = p.node,
                       !.fault = IF p.ok THEN @ ELSE "pop_node"]

\* if (is_empty(&stack)) goto loop_exit; node = pop_node(&stack);
PopOrExit(L) ==
    IF is_empty(L.stack)
    THEN [L EXCEPT !.pc = "exit"]
    ELSE LET p == pop_node(L.stack)
         IN  [L EXCEPT !.stack = p.stack, !.node = p.node,
                       !.fault = IF p.ok THEN @ ELSE "pop_node"]

\* a plausible slip: the left flag is taken for both children
WhichHit_left(hit_left, hit_right) ==
    (IF hit_left THEN HIT_LEFT ELSE HIT_NONE) + (IF hit_left THEN HIT_RIGHT ELSE HIT_NONE)

\* whichhit = HIT_NONE; whichhit |= hit_left ? HIT_LEFT : HIT_NONE; and the same for right
WhichHit(hit_left, hit_right) ==
    (IF hit_left THEN HIT_LEFT ELSE HIT_NONE) + (IF hit_right THEN HIT_RIGHT ELSE HIT_NONE)

\* one iteration of for (;;) on the locals L of a query; V is L with the
\* current node recorded as visited
LoopStep(L, ray, time) ==
    LET node == heap[L.node]
        V == [L EXCEPT !.visited = Append(@, L.node)]
    IN
    IF is_bvh_leaf(node)
    THEN LET tmp == 3 - L.min
             pr == prim_ray_intersect(node.prim_id, time, ray, L.cand[tmp])
             swap == LeafAccept(pr.hit, pr.isect.t_hit, L.cand[L.min].t_hit)
         IN  PopOrExit([V EXCEPT !.cand = [L.cand EXCEPT ![tmp] = pr.isect],
                                 !.min = IF swap THEN tmp ELSE @,
                                 !.hit = IF swap THEN pr.hit ELSE @])
    ELSE LET hit_left == BoxRayIntersect(heap[node.left].bounds, ray)
             hit_right == BoxRayIntersect(heap[node.right].bounds, ray)
             whichhit == WhichHit(hit_left, hit_right)
         IN  CASE whichhit = HIT_NONE -> PopOrExit(V)
               [] whichhit = HIT_LEFT -> [V EXCEPT !.node = node.left]
               [] whichhit = HIT_RIGHT -> [V EXCEPT !.node = node.right]
               [] whichhit = HIT_BOTH ->
                      LET p == push_node(L.stack, node.right)
                      IN  [V EXCEPT !.stack = p.stack, !.node = node.left,
                                    !.fault = IF p.ok THEN @ ELSE "push_node"]

RECURSIVE intersect_bvh_recursive(_, _, _, _)
\* [hit, isect]: the return value of intersect_bvh_recursive on a node and
\* *isect afterwards.  Of the locals isect_left and isect_right only t_hit is
\* initialised; they are copied out only after a primitive has written them.
intersect_bvh_recursive(node, time, ray, isect) ==
    IF ~BoxRayIntersect(heap[node].bounds, ray)
    THEN [hit |-> 0, isect |-> isect]
    ELSE IF is_bvh_leaf(heap[node])
    THEN prim_ray_intersect(heap[node].prim_id, time, ray, isect)
    ELSE LET fresh == [t_hit |-> FLT_MAX, prim_id |-> NO_PRIM]
             l == intersect_bvh_recursive(heap[node].left, time, ray, fresh)
             r == intersect_bvh_recursive(heap[node].right, time, ray, fresh)
             isect_left == [l.isect EXCEPT !.t_hit = IF @ < ray.tmin THEN FLT_MAX ELSE @]
             isect_right == [r.isect EXCEPT !.t_hit = IF @ < ray.tmin THEN FLT_MAX ELSE @]
         IN  [hit |-> IF l.hit # 0 \/ r.hit # 0 THEN 1 ELSE 0,
              isect |-> IF isect_left.t_hit < isect_right.t_hit THEN isect_left
                        ELSE IF isect_right.t_hit < isect_left.t_hit THEN isect_right
                        ELSE isect]

(***************************************************************************)
(* Query actions                                                           *)
(***************************************************************************)
\* a plausible slip: the node stack is declared static, one for all callers
StackOf_static(q) == 1

\* the BVHNodeStack a query uses: its own local
StackOf(q) == q

Locals(q) ==
    [pc |-> qpc[q], node |-> qnode[q], stack |-> qstack[StackOf(q)], cand |-> qcand[q],
     min |-> qmin[q], hit |-> qhit[q], fault |-> qfault[q], visited |-> qvisited[q]]

InitialLocals ==
    [pc |-> "loop", node |-> root, stack |-> <<>>, cand |-> FreshCandidates,
     min |-> 1, hit |-> 0, fault |-> "none", visited |-> <<>>]

Store(q, L) ==
    /\ qpc' = [qpc EXCEPT ![q] = L.pc]
    /\ qnode' = [qnode EXCEPT ![q] = L.node]
    /\ qstack' = [qstack EXCEPT ![StackOf(q)] = L.stack]
    /\ qcand' = [qcand EXCEPT ![q] = L.cand]
    /\ qmin' = [qmin EXCEPT ![q] = L.min]
    /\ qhit' = [qhit EXCEPT ![q] = L.hit]
    /\ qfault' = [qfault EXCEPT ![q] = L.fault]
    /\ qvisited' = [qvisited EXCEPT ![q] = L.visited]

\* intersect_bvh_accel and the declarations of intersect_bvh_loop, on a built index
QueryStart(q) ==
    /\ qpc[q] \in {"idle", "done"}
    /\ bpc = "idle"
    /\ accel = "live"
    /\ root # NULL
    /\ \E in \in QueryInputs :
          /\ qray' = [qray EXCEPT ![q] = in.ray]
          /\ qtime' = [qtime EXCEPT ![q] = in.time]
    /\ Store(q, InitialLocals)
    /\ qout' = [qout EXCEPT ![q] = CallerIsect]
    /\ qresult' = [qresult EXCEPT ![q] = 0]
    /\ UNCHANGED <<primset, bvars, lvars>>

\* a plausible slip: the cursor of the traversal is kept in the index, in
\* bvh->root, besides the local
QueryStep_rootcursor(q) ==
    /\ qpc[q] = "loop"
    /\ qfault[q] = "none"
    /\ Store(q, LoopStep(Locals(q), qray[q], qtime[q]))
    /\ root' = LoopStep(Locals(q), qray[q], qtime[q]).node
    /\ UNCHANGED <<primset, heap, allocated, primptrs, bstack, bret, bpc, buildResult,
                   bfailed, nbuilds, bsplits, lvars, qray, qtime, qout, qresult>>

\* one iteration of the traversal loop
QueryStep(q) ==
    /\ qpc[q] = "loop"
    /\ qfault[q] = "none"
    /\ Store(q, LoopStep(Locals(q), qray[q], qtime[q]))
    /\ UNCHANGED <<primset, bvars, lvars, qray, qtime, qout, qresult>>

\* a plausible slip: the best candidate is copied out whether or not hit is set
QueryExit_always(q) ==
    /\ qpc[q] = "exit"
    /\ qout' = [qout EXCEPT ![q] = qcand[q][qmin[q]]]
    /\ qresult' = [qresult EXCEPT ![q] = qhit[q]]
    /\ qpc' = [qpc EXCEPT ![q] = "done"]
    /\ qnode' = [qnode EXCEPT ![q] = NULL]
    /\ qcand' = [qcand EXCEPT ![q] = FreshCandidates]
    /\ qmin' = [qmin EXCEPT ![q] = 1]
    /\ qhit' = [qhit EXCEPT ![q] = 0]
    /\ UNCHANGED <<primset, bvars, lvars, qray, qtime, qstack, qfault, qvisited>>

\* loop_exit: the best candidate is copied out on a hit, hit is returned; the
\* locals of the call are gone (kept here at their initial values)
QueryExit(q) ==
    /\ qpc[q] = "exit"
    /\ qout' = [qout EXCEPT ![q] = IF qhit[q] # 0 THEN qcand[q][qmin[q]] ELSE @]
    /\ qresult' = [qresult EXCEPT ![q] = qhit[q]]
    /\ qpc' = [qpc EXCEPT ![q] = "done"]
    /\ qnode' = [qnode EXCEPT ![q] = NULL]
    /\ qcand' = [qcand EXCEPT ![q] = FreshCandidates]
    /\ qmin' = [qmin EXCEPT ![q] = 1]
    /\ qhit' = [qhit EXCEPT ![q] = 0]
    /\ UNCHANGED <<primset, bvars, lvars, qray, qtime, qstack, qfault, qvisited>>

(***************************************************************************)
(* Specifications                                                          *)
(***************************************************************************)
PrimSets(pool, n) == UNION {[1..k -> pool] : k \in 1..n}

NoRay == MkRay(<<0, 0, 0>>, <<0, 0, 1>>, 0, 0)

\* new_bvh_accel has run: an index with no tree, no build and no query yet
InitIndex ==
    /\ root = NULL
    /\ heap = <<>>
    /\ allocated = {}
    /\ primptrs = <<>>
    /\ bstack = <<>>
    /\ bret = NULL
    /\ bpc = "idle"
    /\ buildResult = "none"
    /\ bfailed = FALSE
    /\ nbuilds = 0
    /\ bsplits = <<>>
    /\ freed = <<>>
    /\ accel = "live"
    /\ qpc = [q \in AllQueries |-> "idle"]
    /\ qray = [q \in AllQueries |-> NoRay]
    /\ qtime = [q \in AllQueries |-> 0]
    /\ qnode = [q \in AllQueries |-> NULL]
    /\ qstack = [q \in AllQueries |-> <<>>]
    /\ qcand = [q \in AllQueries |-> FreshCandidates]
    /\ qmin = [q \in AllQueries |-> 1]
    /\ qhit = [q \in AllQueries |-> 0]
    /\ qout = [q \in AllQueries |-> CallerIsect]
    /\ qresult = [q \in AllQueries |-> 0]
    /\ qfault = [q \in AllQueries |-> "none"]
    /\ qvisited = [q \in AllQueries |-> <<>>]

Init ==
    /\ primset \in PrimSets(PrimPool, MaxPrims)
    /\ InitIndex

InitDeep ==
    /\ primset \in PrimSets(DeepPool, MaxPrimsDeep)
    /\ InitIndex

InitConc ==
    /\ primset \in PrimSets(DeepPool, MaxPrimsConc)
    /\ InitIndex

\* primitive sources on which every split of the build leaves one primitive
\* on the left: each primitive in turn lies far below the others along the
\* axis of its level
ChainBox(x, y, z) == MkBox(x, x + 1, y, y + 1, z, z + 1)
ChainSeq ==
    << [bounds |-> ChainBox(0, 9, 8), surf |-> "near"],
       [bounds |-> ChainBox(10, 0, 9), surf |-> "near"],
       [bounds |-> ChainBox(11, 10, 0), surf |-> "near"],
       [bounds |-> ChainBox(8, 11, 10), surf |-> "near"],
       [bounds |-> ChainBox(12, 12, 11), surf |-> "near"],
       [bounds |-> ChainBox(13, 13, 12), surf |-> "near"] >>
Reverse(seq) == [i \in 1..Len(seq) |-> seq[Len(seq) + 1 - i]]
ChainSets ==
    {SubSeq(ChainSeq, 1, k) : k \in 1..Len(ChainSeq)}
        \cup {Reverse(SubSeq(ChainSeq, 1, k)) : k \in 1..Len(ChainSeq)}

InitBuild ==
    /\ primset \in PrimSets(PrimPool, MaxPrims) \cup ChainSets
    /\ InitIndex

InitLife ==
    /\ primset \in PrimSets(DeepPool, MaxPrimsLife)
    /\ InitIndex

Build ==
    \/ BuildAccelBegin
    \/ BuildBvhEnter
    \/ BuildBvhLeftDone
    \/ BuildBvhRightDone
    \/ BuildAccelEnd

\* one caller at a time
Next ==
    \/ Build
    \/ QueryStart(1)
    \/ QueryStep(1)
    \/ QueryExit(1)

\* two callers on worker threads, their steps interleaved
NextConc ==
    \/ Build
    \/ \E q \in AllQueries : QueryStart(q)
    \/ \E q \in AllQueries : QueryStep(q)
    \/ \E q \in AllQueries : QueryExit(q)

Spec == Init /\ [][Next]_vars

\* one caller at a time, on deeper trees over fewer kinds of primitives
SpecDeep == InitDeep /\ [][Next]_vars

SpecConc == InitConc /\ [][NextConc]_vars

\* the build alone, also on the sources that make a chain
SpecBuild == InitBuild /\ [][Build]_vars

\* the life of an index: builds, rebuilds, and its destruction
NextLife ==
    \/ Build
    \/ RebuildAccelBegin
    \/ Destroy

SpecLife == InitLife /\ [][NextLife]_vars

(***************************************************************************)
(* The tree as the index holds it, and the vocabulary of the properties    *)
(***************************************************************************)
RECURSIVE SubtreeNodes(_)
\* the nodes reachable from node n through left and right
SubtreeNodes(n) ==
    IF n = NULL THEN {}
    ELSE {n} \cup SubtreeNodes(heap[n].left) \cup SubtreeNodes(heap[n].right)

TreeNodes == SubtreeNodes(root)
Leaves == {n \in TreeNodes : is_bvh_leaf(heap[n])}
Internals == TreeNodes \ Leaves

\* build_bvh_accel has returned 0
Built == bpc = "idle" /\ buildResult = "ok"
\* build_bvh_accel has returned -1
BuildFailed == bpc = "idle" /\ buildResult = "error"

BoxContains(outer, inner) ==
    \A a \in Axes : outer.min[a] <= inner.min[a] /\ inner.max[a] <= outer.max[a]

\* the primitives whose intersect reports a hit within [tmin, tmax]
InRangeHits(ray, time) ==
    {i \in 0..(PrmGetPrimitiveCount - 1) :
        LET r == PrmRayIntersect(i, time, ray)
        IN  r.hit = 1 /\ ray.tmin <= r.t_hit /\ r.t_hit <= ray.tmax}

\* the assumption on the primitive source: a hit in range lies where the ray
\* is inside the primitive's bounds in range
HitsInsideBounds(ray, time) ==
    \A i \in InRangeHits(ray, time) : BoxRayIntersect(PrmGetPrimitiveBounds(i), ray)

NearestT(ray, time) == SetMin({PrmRayIntersect(i, time, ray).t_hit : i \in InRangeHits(ray, time)})

CeilLog2(n) == CHOOSE k \in 0..n : 2^k >= n /\ (k = 0 \/ 2^(k - 1) < n)

(***************************************************************************)
(* C1 - C4: the traversal                                                  *)
(***************************************************************************)
\* C1: a finished query over a primitive source whose in-range hits lie inside
\* their bounds returns a hit exactly when some primitive has a hit with
\* tmin <= t <= tmax, and then the returned t_hit is the least such t over all
\* primitives, whatever order the leaves were visited in.
C1_NearestHit ==
    \A q \in AllQueries :
        (qpc[q] = "done" /\ HitsInsideBounds(qray[q], qtime[q])) =>
            /\ (qresult[q] # 0) <=> (InRangeHits(qray[q], qtime[q]) # {})
            /\ qresult[q] # 0 => qout[q].t_hit = NearestT(qray[q], qtime[q])

\* C1 witness: the leaf descended first (the root's left child) holds a primitive
\* hit in range, and the query returned another primitive with a smaller t.
C1_Witness ==
    /\ qpc[1] = "done" /\ qresult[1] = 1
    /\ HitsInsideBounds(qray[1], qtime[1])
    /\ root # NULL /\ ~is_bvh_leaf(heap[root])
    /\ is_bvh_leaf(heap[heap[root].left])
    /\ heap[heap[root].left].prim_id \in InRangeHits(qray[1], qtime[1])
    /\ qout[1].prim_id # heap[heap[root].left].prim_id
    /\ qout[1].t_hit < PrmRayIntersect(heap[heap[root].left].prim_id, qtime[1], qray[1]).t_hit

\* C2: the best hit a query holds, at every step and when it returns, has
\* tmin <= t_hit <= tmax and belongs to a primitive whose reported hit is in
\* range: a hit reported outside the range is never kept nor returned.
C2_HitInRange ==
    \A q \in AllQueries :
        /\ (qpc[q] \in {"loop", "exit"} /\ qhit[q] # 0) =>
              /\ qray[q].tmin <= qcand[q][qmin[q]].t_hit
              /\ qcand[q][qmin[q]].t_hit <= qray[q].tmax
              /\ qcand[q][qmin[q]].prim_id \in InRangeHits(qray[q], qtime[q])
        /\ (qpc[q] = "done" /\ qresult[q] # 0) =>
              /\ qray[q].tmin <= qout[q].t_hit /\ qout[q].t_hit <= qray[q].tmax
              /\ qout[q].prim_id \in InRangeHits(qray[q], qtime[q])

\* C2 witness: a query returned a hit although some primitive reported a
\* nearer hit that lies outside the ray's range.
C2_Witness ==
    /\ qpc[1] = "done" /\ qresult[1] = 1
    /\ \E i \in 0..(PrmGetPrimitiveCount - 1) :
          LET r == PrmRayIntersect(i, qtime[1], qray[1])
          IN  r.hit = 1 /\ r.t_hit < qray[1].tmin /\ r.t_hit < qout[1].t_hit

\* C3: the node stack of a query never holds more than ceil(log2 N) entries for
\* a tree of N primitives, which is below BVH_STACKSIZE for every int N, and
\* neither the assertion of push_node nor that of pop_node fails.
C3_StackBounded ==
    \A q \in AllQueries :
        /\ qfault[q] = "none"
        /\ Len(qstack[q]) <= CeilLog2(PrmGetPrimitiveCount)
        /\ Len(qstack[q]) < BVH_STACKSIZE

\* C3 witness: a query over four primitives holds two stack entries.
C3_Witness ==
    /\ PrmGetPrimitiveCount = 4
    /\ qpc[1] = "loop"
    /\ Len(qstack[1]) = 2

RECURSIVE RunStates(_, _, _)
\* the locals a query passes through when it runs alone from locals L to loop_exit
RunStates(L, ray, time) ==
    IF L.pc = "exit" \/ L.fault # "none" THEN {L}
    ELSE {L} \cup RunStates(LoopStep(L, ray, time), ray, time)

\* [hit, out]: what a query returns and leaves in the caller's intersection
\* when it runs alone
RunAlone(ray, time) ==
    LET F == CHOOSE L \in RunStates(InitialLocals, ray, time) : L.pc = "exit"
    IN  [hit |-> F.hit, out |-> IF F.hit # 0 THEN F.cand[F.min] ELSE CallerIsect]

\* C4: with the steps of two queries interleaved on one built index, every
\* query in flight holds locals that it also holds when it runs alone, every
\* finished query has returned what it returns alone, and two finished queries
\* with the same ray and time have returned the same.
C4_NoInterference ==
    /\ \A q \in AllQueries :
          /\ qpc[q] \in {"loop", "exit"} =>
                Locals(q) \in RunStates(InitialLocals, qray[q], qtime[q])
          /\ qpc[q] = "done" =>
                /\ qresult[q] = RunAlone(qray[q], qtime[q]).hit
                /\ qout[q] = RunAlone(qray[q], qtime[q]).out
    /\ \A p, q \in AllQueries :
          (qpc[p] = "done" /\ qpc[q] = "done" /\ qray[p] = qray[q] /\ qtime[p] = qtime[q])
              => (qresult[p] = qresult[q] /\ qout[p] = qout[q])

\* C4 witness: both queries are in the loop at the same time, each with a node
\* on its stack, on different rays.
C4_Witness ==
    /\ qpc[1] = "loop" /\ qpc[2] = "loop"
    /\ qstack[1] # <<>> /\ qstack[2] # <<>>
    /\ qray[1] # qray[2]

(***************************************************************************)
(* C5 - C10: the build                                                     *)
(***************************************************************************)
\* C5: after a successful build from N primitives the tree has exactly N
\* leaves and exactly N - 1 internal nodes.
C5_NodeCounts ==
    Built =>
        /\ Cardinality(Leaves) = PrmGetPrimitiveCount
        /\ Cardinality(Internals) = PrmGetPrimitiveCount - 1

\* C5 witness: a tree built from the most primitives, with internal nodes on
\* both sides of the root or a subtree of three.
C5_Witness ==
    /\ Built
    /\ PrmGetPrimitiveCount = MaxPrimsDeep
    /\ Cardinality(Internals) >= 2

\* C6: after a successful build every leaf's bounds equal the bounds the
\* primitive source reports for the leaf's primitive index.
C6_LeafBounds ==
    Built => \A n \in Leaves : heap[n].bounds = PrmGetPrimitiveBounds(heap[n].prim_id)

\* C6 witness: a built tree whose first leaf holds a primitive the sort moved
\* to the front, with bounds other than primitive 0's.
C6_Witness ==
    /\ Built
    /\ ~is_bvh_leaf(heap[root])
    /\ is_bvh_leaf(heap[heap[root].left])
    /\ heap[heap[root].left].prim_id # 0
    /\ heap[heap[root].left].bounds # PrmGetPrimitiveBounds(0)

\* C7: after a successful build every internal node's bounds are, corner by
\* corner, the least box around its two children's bounds, and so contain the
\* bounds of every primitive below the node.
C7_InternalBounds ==
    Built =>
        \A n \in Internals :
            /\ \A a \in Axes :
                  /\ heap[n].bounds.min[a] =
                        Min2(heap[heap[n].left].bounds.min[a], heap[heap[n].right].bounds.min[a])
                  /\ heap[n].bounds.max[a] =
                        Max2(heap[heap[n].left].bounds.max[a], heap[heap[n].right].bounds.max[a])
            /\ \A m \in SubtreeNodes(n) :
                  is_bvh_leaf(heap[m]) =>
                      BoxContains(heap[n].bounds, PrmGetPrimitiveBounds(heap[m].prim_id))

\* C7 witness: a built root whose bounds are larger than each child's.
C7_Witness ==
    /\ Built
    /\ ~is_bvh_leaf(heap[root])
    /\ heap[root].bounds # heap[heap[root].left].bounds
    /\ heap[root].bounds # heap[heap[root].right].bounds

\* C8: after a successful build every node is either a leaf (no children and a
\* primitive index) or an internal node (two children and the index -1).
C8_LeafOrInternal ==
    Built =>
        \A n \in TreeNodes :
            \/ heap[n].left = NULL /\ heap[n].right = NULL /\ heap[n].prim_id # NO_PRIM
            \/ heap[n].left # NULL /\ heap[n].right # NULL /\ heap[n].prim_id = NO_PRIM

\* C8 witness: a built tree with an internal node below the root.
C8_Witness ==
    /\ Built
    /\ \E n \in Internals : n # root

\* C9: when a build has returned an error, no allocated node is left that the
\* index does not reach.
C9_NoLeakOnFailure ==
    BuildFailed => allocated \subseteq TreeNodes

\* C10: when an allocation of a build on a fresh index has failed, the build
\* has returned an error once it is over and the root is still NULL.
C10_FailureLeavesUnbuilt ==
    (bpc = "idle" /\ bfailed) => (buildResult = "error" /\ root = NULL)

\* C10 witness: a build has returned an error after a node allocation failed
\* below the root.
C10_Witness ==
    /\ BuildFailed
    /\ bfailed
    /\ Len(heap) >= 2

(***************************************************************************)
(* C11 - C12: rebuild and destroy                                          *)
(***************************************************************************)
\* how often x occurs in seq
Count(seq, x) == Cardinality({i \in DOMAIN seq : seq[i] = x})

\* C11: a build on an index that holds a tree releases every node of that
\* tree before or as it installs the new root: whenever the root changes
\* from a tree to another value, no node of the former tree stays allocated.
C11_RebuildReleasesPrior ==
    [][(root # NULL /\ root' # root) => (SubtreeNodes(root) \cap allocated' = {})]_vars

\* C12: once free_bvh_accel has run, every node of the tree the index held has
\* been freed exactly once and is no longer allocated, nothing else was freed,
\* and the instance is released; the assertions of the recursive free hold on
\* every tree the index holds.
C12_DestroyFreesTree ==
    /\ accel = "freed" =>
          /\ \A n \in TreeNodes : Count(freed, n) = 1 /\ n \notin allocated
          /\ \A i \in DOMAIN freed : freed[i] \in TreeNodes
    /\ bpc = "idle" => FreeAssertsHold(root)

\* C12 witness: an index holding a successfully built tree with an internal
\* node has been destroyed.
C12_Witness ==
    /\ accel = "freed"
    /\ buildResult = "ok"
    /\ Cardinality(TreeNodes) >= 3
    /\ Len(freed) = Cardinality(TreeNodes)

(***************************************************************************)
(* C13: the two traversals                                                 *)
(***************************************************************************)
\* C13: on the tree and the ray of every finished query, intersect_bvh_recursive
\* returns the flag intersect_bvh_loop returned and, on a hit, leaves the same
\* intersection in the caller's output.
C13_LoopEqualsRecursive ==
    \A q \in AllQueries :
        qpc[q] = "done" =>
            LET rec == intersect_bvh_recursive(root, qtime[q], qray[q], CallerIsect)
            IN  /\ (qresult[q] # 0) <=> (rec.hit # 0)
                /\ qresult[q] # 0 => qout[q] = rec.isect

(***************************************************************************)
(* C14: the depth of the tree                                              *)
(***************************************************************************)
RECURSIVE Depth(_)
\* the edges on the longest path from node n down to a leaf
Depth(n) ==
    IF n = NULL \/ is_bvh_leaf(heap[n]) THEN 0
    ELSE 1 + Max2(Depth(heap[n].left), Depth(heap[n].right))

RECURSIVE LeftDepth(_)
\* the most left edges on a path from node n down to a leaf
LeftDepth(n) ==
    IF n = NULL \/ is_bvh_leaf(heap[n]) THEN 0
    ELSE Max2(1 + LeftDepth(heap[n].left), LeftDepth(heap[n].right))

\* C14 as stated: the longest root-to-leaf path of a built tree over N
\* primitives has at most ceil(log2 N) + 1 edges.
C14_LogarithmicDepth ==
    Built => Depth(root) <= CeilLog2(PrmGetPrimitiveCount) + 1

\* C14 amended: in a built tree over N primitives a root-to-leaf path has at
\* most ceil(log2 N) left edges and at most N - 1 edges in all.
C14_LeftDepthLogarithmic ==
    Built =>
        /\ LeftDepth(root) <= CeilLog2(PrmGetPrimitiveCount)
        /\ Depth(root) <= PrmGetPrimitiveCount - 1

\* C14 witness: a built tree that is a chain of N - 1 edges, longer than
\* ceil(log2 N) + 1.
C14_Witness ==
    /\ Built
    /\ Depth(root) = PrmGetPrimitiveCount - 1
    /\ Depth(root) > CeilLog2(PrmGetPrimitiveCount) + 1
    /\ LeftDepth(root) = 1

(***************************************************************************)
(* C15 - C16: what a query touches                                         *)
(***************************************************************************)
\* C15: every step that changes anything of a query (its locals, its stack,
\* its output) leaves the index as it was: the root, every node's left, right,
\* bounds and prim_id, the set of allocated nodes and the primitive source.
C15_QueryLeavesIndex ==
    [][qvars' # qvars =>
          (root' = root /\ heap' = heap /\ allocated' = allocated /\ primset' = primset)]_vars

\* C15 witness: a query that descended, pushed a node and found a hit has returned.
C15_Witness ==
    /\ qpc[1] = "done"
    /\ qresult[1] # 0
    /\ Len(qvisited[1]) >= 3
    /\ qout[1] # CallerIsect

\* the box test of the ray fails against the bounds of every primitive
MissesAllBoxes(ray) ==
    \A i \in 0..(PrmGetPrimitiveCount - 1) : ~BoxRayIntersect(PrmGetPrimitiveBounds(i), ray)

\* the positions of a query's visits that are leaves: its calls of prim_ray_intersect
LeafVisits(q) == {i \in DOMAIN qvisited[q] : is_bvh_leaf(heap[qvisited[q][i]])}

\* C16 as stated: on a ray whose box test fails against every primitive's
\* bounds, a query on a tree over N >= 1 primitives visits no leaf and returns
\* no hit.
C16_MissVisitsNoLeaf ==
    \A q \in AllQueries :
        (qpc[q] = "done" /\ MissesAllBoxes(qray[q])) =>
            (qresult[q] = 0 /\ LeafVisits(q) = {})

\* C16 amended: on such a ray a query on a tree over N >= 2 primitives visits no
\* leaf at any step and returns no hit; on a tree over one primitive it visits
\* the root leaf once, with no box test, and returns no hit when the in-range
\* hits of the source lie inside their bounds.
C16_MissVisitsNoLeafBelowRoot ==
    \A q \in AllQueries :
        (qpc[q] # "idle" /\ MissesAllBoxes(qray[q])) =>
            /\ PrmGetPrimitiveCount >= 2 =>
                  /\ LeafVisits(q) = {}
                  /\ qpc[q] = "done" => qresult[q] = 0
            /\ (PrmGetPrimitiveCount = 1 /\ qpc[q] = "done") =>
                  /\ qvisited[q] = <<root>>
                  /\ HitsInsideBounds(qray[q], qtime[q]) => qresult[q] = 0

\* C16 witness: the ray misses every primitive's bounds but hits the box of an
\* internal node below the root; the query went there, visited no leaf and
\* returned no hit.
C16_Witness ==
    /\ qpc[1] = "done"
    /\ MissesAllBoxes(qray[1])
    /\ Len(qvisited[1]) >= 2
    /\ LeafVisits(1) = {}
    /\ qresult[1] = 0

(***************************************************************************)
(* C17 - C18: the smallest trees                                           *)
(***************************************************************************)
\* C17: a build from exactly one primitive leaves a root that is a leaf with
\* prim_id 0 and the primitive's bounds; nothing was sorted or searched for a
\* split, and the root is the only node allocated.
C17_SinglePrimitive ==
    (Built /\ PrmGetPrimitiveCount = 1) =>
        /\ root # NULL
        /\ is_bvh_leaf(heap[root])
        /\ heap[root].prim_id = 0
        /\ heap[root].bounds = PrmGetPrimitiveBounds(0)
        /\ bsplits = <<>>
        /\ Len(heap) = 1
        /\ allocated = {root}

\* C17 witness: an index built from one primitive.
C17_Witness ==
    /\ Built
    /\ PrmGetPrimitiveCount = 1
    /\ nbuilds = 1
    /\ TreeNodes = {root}

\* C18: a build from exactly two primitives whose centroids differ along axis 0
\* leaves exactly three nodes: an internal root and two leaves, the left one
\* holding the primitive with the smaller centroid along axis 0, the right one
\* the other.
C18_TwoPrimitives ==
    (Built /\ PrmGetPrimitiveCount = 2 /\ Centroid2(0, 0) # Centroid2(1, 0)) =>
        /\ root # NULL
        /\ ~is_bvh_leaf(heap[root])
        /\ Internals = {root}
        /\ Leaves = {heap[root].left, heap[root].right}
        /\ Cardinality(TreeNodes) = 3
        /\ Len(heap) = 3
        /\ {heap[heap[root].left].prim_id, heap[heap[root].right].prim_id} = {0, 1}
        /\ Centroid2(heap[heap[root].left].prim_id, 0)
              < Centroid2(heap[heap[root].right].prim_id, 0)

\* C18 witness: built from two primitives of which the second has the smaller
\* centroid along axis 0, so the sort exchanged them.
C18_Witness ==
    /\ Built
    /\ PrmGetPrimitiveCount = 2
    /\ Centroid2(1, 0) < Centroid2(0, 0)
    /\ heap[heap[root].left].prim_id = 1
    /\ heap[heap[root].right].prim_id = 0

(***************************************************************************)
(* C19: ties                                                               *)
(***************************************************************************)
RECURSIVE LeafOrder(_)
\* the leaves below node n in left-first depth-first order
LeafOrder(n) ==
    IF n = NULL THEN <<>>
    ELSE IF is_bvh_leaf(heap[n]) THEN <<n>>
    ELSE LeafOrder(heap[n].left) \o LeafOrder(heap[n].right)

\* where x stands in a sequence that holds it
PosIn(seq, x) == CHOOSE i \in DOMAIN seq : seq[i] = x

\* the positions of seq whose leaf holds a primitive hit in range at distance t
HitAt(seq, ray, time, t) ==
    {i \in DOMAIN seq :
        /\ is_bvh_leaf(heap[seq[i]])
        /\ heap[seq[i]].prim_id \in InRangeHits(ray, time)
        /\ PrmRayIntersect(heap[seq[i]].prim_id, time, ray).t_hit = t}

\* C19: a query visits leaves in left-first depth-first order; the primitive a
\* finished query returns is that of the first leaf it visited whose in-range
\* hit is at the returned distance, and, when the in-range hits of the source
\* lie inside their bounds, that of the first leaf in left-first depth-first
\* order of the whole tree whose in-range hit is at the least distance.
C19_FirstVisitedWinsTie ==
    \A q \in AllQueries :
        /\ qpc[q] # "idle" =>
              \A i, j \in LeafVisits(q) :
                  i < j => PosIn(LeafOrder(root), qvisited[q][i])
                              < PosIn(LeafOrder(root), qvisited[q][j])
        /\ (qpc[q] = "done" /\ qresult[q] # 0) =>
              /\ HitAt(qvisited[q], qray[q], qtime[q], qout[q].t_hit) # {}
              /\ qout[q].prim_id =
                    heap[qvisited[q][SetMin(HitAt(qvisited[q], qray[q], qtime[q],
                                                  qout[q].t_hit))]].prim_id
              /\ HitsInsideBounds(qray[q], qtime[q]) =>
                    qout[q].prim_id =
                        heap[LeafOrder(root)[SetMin(HitAt(LeafOrder(root), qray[q], qtime[q],
                                                          NearestT(qray[q], qtime[q])))]].prim_id

\* C19 witness: a finished query returned a hit while another primitive, in a
\* leaf visited later, has its in-range hit at the same least distance.
C19_Witness ==
    /\ qpc[1] = "done"
    /\ qresult[1] # 0
    /\ HitsInsideBounds(qray[1], qtime[1])
    /\ qout[1].t_hit = NearestT(qray[1], qtime[1])
    /\ Cardinality(HitAt(qvisited[1], qray[1], qtime[1], qout[1].t_hit)) >= 2

(***************************************************************************)
(* C20: pushed right children                                              *)
(***************************************************************************)
\* the box tests of both children of internal node n succeed
BothHit(n, ray) ==
    /\ BoxRayIntersect(heap[heap[n].left].bounds, ray)
    /\ BoxRayIntersect(heap[heap[n].right].bounds, ray)

\* C20: a query is at loop_exit or has returned only with an empty stack; and
\* for every internal node it visited whose children's boxes are both hit, the
\* left child is the node visited next, and the right child is on the stack
\* while the loop runs, or has just been popped, or has been visited later,
\* after nodes of the left subtree only: at the return every pushed right child
\* has been traversed, whatever hit was held meanwhile.
C20_PushedRightTraversed ==
    \A q \in AllQueries :
        qpc[q] # "idle" =>
            /\ qpc[q] \in {"exit", "done"} => qstack[q] = <<>>
            /\ \A i \in DOMAIN qvisited[q] :
                  LET v == qvisited[q]
                      n == v[i]
                  IN  (~is_bvh_leaf(heap[n]) /\ BothHit(n, qray[q])) =>
                          /\ IF i < Len(v) THEN v[i + 1] = heap[n].left
                                           ELSE qnode[q] = heap[n].left
                          /\ \/ /\ qpc[q] = "loop"
                                /\ \E s \in DOMAIN qstack[q] : qstack[q][s] = heap[n].right
                             \/ /\ qpc[q] = "loop"
                                /\ i < Len(v)
                                /\ qnode[q] = heap[n].right
                                /\ \A k \in (i + 1)..Len(v) :
                                      v[k] \in SubtreeNodes(heap[n].left)
                             \/ \E j \in DOMAIN v :
                                   /\ j > i + 1
                                   /\ v[j] = heap[n].right
                                   /\ \A k \in (i + 1)..(j - 1) :
                                         v[k] \in SubtreeNodes(heap[n].left)

\* C20 witness: a finished query visited an internal node with both boxes hit
\* whose left child is a leaf with an in-range hit, and went on to visit the
\* pushed right child although it held that hit.
C20_Witness ==
    /\ qpc[1] = "done"
    /\ qresult[1] # 0
    /\ \E i \in DOMAIN qvisited[1] :
          LET n == qvisited[1][i]
          IN  /\ ~is_bvh_leaf(heap[n])
              /\ BothHit(n, qray[1])
              /\ is_bvh_leaf(heap[heap[n].left])
              /\ heap[heap[n].left].prim_id \in InRangeHits(qray[1], qtime[1])
              /\ \E j \in DOMAIN qvisited[1] : j > i /\ qvisited[1][j] = heap[n].right

(***************************************************************************)
(* C21 - C22: visits of a query                                            *)
(***************************************************************************)
\* C21: within one query no node is the current node of two iterations, the
\* node about to be visited has not been visited, and the leaves visited (one
\* call of prim_ray_intersect each) hold pairwise different primitives.
C21_OnceEach ==
    \A q \in AllQueries :
        qpc[q] # "idle" =>
            /\ \A i, j \in DOMAIN qvisited[q] : i # j => qvisited[q][i] # qvisited[q][j]
            /\ qpc[q] = "loop" => \A i \in DOMAIN qvisited[q] : qvisited[q][i] # qnode[q]
            /\ \A i, j \in LeafVisits(q) :
                  i # j => heap[qvisited[q][i]].prim_id # heap[qvisited[q][j]].prim_id

\* C21 witness: a finished query that popped a node and visited three leaves.
C21_Witness ==
    /\ qpc[1] = "done"
    /\ Cardinality(LeafVisits(1)) >= 3

\* C22: a query on a tree over N primitives has made at most 2N - 1 visits, all
\* of nodes of the tree; while it loops it has made fewer, no assertion has
\* failed, and the current node and the stack entries are nodes of the tree
\* not yet visited: every iteration adds one visit, so the loop exits within
\* 2N - 1 iterations.
C22_VisitsBounded ==
    \A q \in AllQueries :
        qpc[q] # "idle" =>
            /\ Len(qvisited[q]) <= 2 * PrmGetPrimitiveCount - 1
            /\ \A i \in DOMAIN qvisited[q] : qvisited[q][i] \in TreeNodes
            /\ qfault[q] = "none"
            /\ qpc[q] = "loop" =>
                  /\ Len(qvisited[q]) < 2 * PrmGetPrimitiveCount - 1
                  /\ qnode[q] \in TreeNodes
                  /\ \A s \in DOMAIN qstack[q] :
                        /\ qstack[q][s] \in TreeNodes
                        /\ \A i \in DOMAIN qvisited[q] : qvisited[q][i] # qstack[q][s]

\* C22 witness: a finished query visited every node of a tree over three primitives.
C22_Witness ==
    /\ qpc[1] = "done"
    /\ PrmGetPrimitiveCount = 3
    /\ Len(qvisited[1]) = 2 * PrmGetPrimitiveCount - 1

(***************************************************************************)
(* C23 - C25: find_median                                                  *)
(***************************************************************************)
\* the sorted arrays of doubled centroids find_median is applied to directly,
\* and the ranges [begin, end) of at least two elements in them
SortedCentroids ==
    UNION {{cen \in [0..(n - 1) -> 0..MaxCentroid] :
                \A i \in 0..(n - 2) : cen[i] <= cen[i + 1]} : n \in 2..MaxRange}
SortedRanges ==
    UNION {{r \in [cen : {cen}, begin : DOMAIN cen, end : 1..MaxRange] :
                r.end - 1 \in DOMAIN cen /\ r.end - r.begin >= 2} :
           cen \in SortedCentroids}

\* the first and the last centroid of the range differ
NotDegenerate(cen, begin, end) == cen[begin] # cen[end - 1]

\* C23 on the sorted arrays: a range whose first and last centroid differ is
\* split strictly inside.
C23_OnRanges ==
    \A r \in SortedRanges :
        NotDegenerate(r.cen, r.begin, r.end) =>
            (r.begin < find_median_on(r.cen, r.begin, r.end)
                /\ find_median_on(r.cen, r.begin, r.end) < r.end)

\* C23: for every sorted range of at least two elements whose first and last
\* centroid along the axis differ, among the sorted arrays and among the
\* ranges the build has split, find_median returns begin < median < end.
C23_MedianInside ==
    /\ C23_OnRanges
    /\ \A k \in DOMAIN bsplits :
          NotDegenerate(bsplits[k].cen, bsplits[k].begin, bsplits[k].end) =>
              (bsplits[k].begin < bsplits[k].median /\ bsplits[k].median < bsplits[k].end)

\* C23 witness: the build split a range of three whose first and last centroid
\* differ and gave two of them to the left.
C23_Witness ==
    \E k \in DOMAIN bsplits :
        /\ bsplits[k].end - bsplits[k].begin = 3
        /\ NotDegenerate(bsplits[k].cen, bsplits[k].begin, bsplits[k].end)
        /\ bsplits[k].median = bsplits[k].begin + 2

\* a centroid value occurs twice in the range
HasDuplicate(cen, begin, end) ==
    \E i, j \in begin..(end - 1) : i # j /\ cen[i] = cen[j]

\* C24 as stated: some sorted range of at least two elements with a repeated
\* centroid value, among the sorted arrays or among the ranges the build has
\* split, is split with an empty side, median = begin or median = end.
C24_DegenerateSplitExists ==
    \/ \E r \in SortedRanges :
          /\ HasDuplicate(r.cen, r.begin, r.end)
          /\ find_median_on(r.cen, r.begin, r.end) \in {r.begin, r.end}
    \/ \E k \in DOMAIN bsplits :
          /\ HasDuplicate(bsplits[k].cen, bsplits[k].begin, bsplits[k].end)
          /\ bsplits[k].median \in {bsplits[k].begin, bsplits[k].end}

\* C24 amended, on the sorted arrays: every range of at least two elements,
\* with or without repeated centroids, is split strictly inside.
C24_OnRanges ==
    \A r \in SortedRanges :
        /\ r.begin < find_median_on(r.cen, r.begin, r.end)
        /\ find_median_on(r.cen, r.begin, r.end) < r.end

\* C24 amended: no sorted range of at least two elements is split with an empty
\* side, whatever centroids repeat: among the sorted arrays and among the
\* ranges the build has split, begin < median < end.
C24_NoDegenerateSplit ==
    /\ C24_OnRanges
    /\ \A k \in DOMAIN bsplits :
          bsplits[k].begin < bsplits[k].median /\ bsplits[k].median < bsplits[k].end

\* C24 witness: the build split a range of three equal centroids.
C24_Witness ==
    \E k \in DOMAIN bsplits :
        /\ bsplits[k].end - bsplits[k].begin = 3
        /\ ~NotDegenerate(bsplits[k].cen, bsplits[k].begin, bsplits[k].end)
        /\ bsplits[k].begin < bsplits[k].median
        /\ bsplits[k].median < bsplits[k].end

\* C25: unless find_median probed an element whose centroid equals key (the
\* probe it then stops at is the one left of the returned index), every element
\* of a range the build has split that lies left of the returned index has a
\* centroid below key, and every element at or right of it a centroid of at
\* least key; key is half the sum of the first and the last centroid.
C25_TransitionPosition ==
    \A k \in DOMAIN bsplits :
        LET r == bsplits[k]
            key4 == r.cen[r.begin] + r.cen[r.end - 1]
        IN  2 * r.cen[r.median - 1] # key4 =>
                /\ \A i \in r.begin..(r.median - 1) : 2 * r.cen[i] < key4
                /\ \A i \in r.median..(r.end - 1) : 2 * r.cen[i] >= key4

(***************************************************************************)
(* C26 - C28: the shape of the tree                                        *)
(***************************************************************************)
\* the primitives held by the leaves at and below node n
PrimsBelow(n) == {heap[l].prim_id : l \in {x \in SubtreeNodes(n) : is_bvh_leaf(heap[x])}}

RECURSIVE PartitionedFrom(_, _)
\* at node n of depth d and at every internal node below it, along axis
\* depth mod 3 no primitive of the left subtree has a centroid above that of
\* a primitive of the right subtree
PartitionedFrom(n, d) ==
    \/ n = NULL
    \/ is_bvh_leaf(heap[n])
    \/ /\ \A a \in PrimsBelow(heap[n].left), b \in PrimsBelow(heap[n].right) :
             Centroid2(a, d % 3) <= Centroid2(b, d % 3)
       /\ PartitionedFrom(heap[n].left, d + 1)
       /\ PartitionedFrom(heap[n].right, d + 1)

\* C26: in every built tree each internal node at depth d splits along axis
\* d mod 3: the splits recorded by the build run along the axis of their depth,
\* and every primitive of the left subtree has a centroid along that axis less
\* than or equal to that of every primitive of the right subtree.
C26_AxisRotatingPartition ==
    /\ \A k \in DOMAIN bsplits : bsplits[k].axis = bsplits[k].depth % 3
    /\ Built => PartitionedFrom(root, 0)

\* C26 witness: a built tree of depth two in which the root's split along
\* axis 0 would not do for the split below it: there the primitives are
\* ordered along axis 1 and not along axis 0.
C26_Witness ==
    /\ Built
    /\ \E n \in Internals \ {root} :
          /\ \E a \in PrimsBelow(heap[n].left), b \in PrimsBelow(heap[n].right) :
                Centroid2(a, 1) < Centroid2(b, 1)
          /\ \E a \in PrimsBelow(heap[n].left), b \in PrimsBelow(heap[n].right) :
                Centroid2(a, 0) > Centroid2(b, 0)

\* the leaves at and below node n
LeafCount(n) == Cardinality({x \in SubtreeNodes(n) : is_bvh_leaf(heap[x])})

\* C27 on the sorted arrays: the left part of a range of n >= 2 elements has
\* at least one and at most ceil(n / 2) elements.
C27_OnRanges ==
    \A r \in SortedRanges :
        /\ 1 <= find_median_on(r.cen, r.begin, r.end) - r.begin
        /\ find_median_on(r.cen, r.begin, r.end) - r.begin <= (r.end - r.begin + 1) \div 2

\* C27: find_median gives the left part of a range of n >= 2 elements at least
\* one and at most ceil(n / 2) of them, on the sorted arrays and in every split
\* of the build; the left child of every internal node of the tree holds at
\* most half, rounded up, of the node's primitives; and the stack of a query
\* never holds more than ceil(log2 N) entries.
C27_LeftHalfBoundsStack ==
    /\ C27_OnRanges
    /\ \A k \in DOMAIN bsplits :
          /\ 1 <= bsplits[k].median - bsplits[k].begin
          /\ bsplits[k].median - bsplits[k].begin
                <= (bsplits[k].end - bsplits[k].begin + 1) \div 2
    /\ \A n \in Internals :
          /\ 1 <= LeafCount(heap[n].left)
          /\ LeafCount(heap[n].left) <= (LeafCount(n) + 1) \div 2
    /\ \A q \in AllQueries :
          qpc[q] # "idle" => Len(qstack[q]) <= CeilLog2(PrmGetPrimitiveCount)

\* C27 witness: the root of a tree over three primitives gave two of them to
\* its left child, and a query holds ceil(log2 3) = 2 entries on its stack.
C27_Witness ==
    /\ PrmGetPrimitiveCount = 3
    /\ root # NULL
    /\ LeafCount(heap[root].left) = 2
    /\ qpc[1] = "loop"
    /\ Len(qstack[1]) = 2

\* C28: in a built tree over N primitives every index 0..N-1 is the prim_id of
\* exactly one leaf and no leaf holds anything else; while the build runs the
\* pointer array holds every record exactly once, however the sorts reorder it.
C28_LeavesPermutation ==
    /\ Built =>
          /\ \A i \in 0..(PrmGetPrimitiveCount - 1) :
                Cardinality({l \in Leaves : heap[l].prim_id = i}) = 1
          /\ \A l \in Leaves : heap[l].prim_id \in 0..(PrmGetPrimitiveCount - 1)
    /\ bpc = "running" =>
          /\ DOMAIN primptrs = 0..(PrmGetPrimitiveCount - 1)
          /\ \A i \in 0..(PrmGetPrimitiveCount - 1) :
                Cardinality({p \in DOMAIN primptrs : primptrs[p] = i}) = 1

\* C28 witness: a built tree over three primitives whose leaves, left to right,
\* hold the primitives in another order than the source.
C28_Witness ==
    /\ Built
    /\ PrmGetPrimitiveCount = 3
    /\ heap[LeafOrder(root)[1]].prim_id = 2
    /\ heap[LeafOrder(root)[3]].prim_id = 0

(***************************************************************************)
(* C29: the caller's output                                                *)
(***************************************************************************)
\* what the intersect of primitive i writes to an intersection on a hit
Populated(i, time, ray) ==
    [t_hit |-> PrmRayIntersect(i, time, ray).t_hit,
     prim_id |-> PrmRayIntersect(i, time, ray).prim_id]

\* C29: while the loop runs and at loop_exit the caller's intersection is as
\* the caller passed it; after a return of 0 it still is; at loop_exit with a
\* hit the best candidate is what the intersect of its primitive wrote, and
\* after a return with a hit the caller's intersection is that.
C29_OutputWrittenOnHitOnly ==
    \A q \in AllQueries :
        /\ qpc[q] \in {"loop", "exit"} => qout[q] = CallerIsect
        /\ (qpc[q] = "done" /\ qresult[q] = 0) => qout[q] = CallerIsect
        /\ (qpc[q] = "exit" /\ qhit[q] # 0) =>
              /\ qcand[q][qmin[q]].prim_id \in 0..(PrmGetPrimitiveCount - 1)
              /\ PrmRayIntersect(qcand[q][qmin[q]].prim_id, qtime[q], qray[q]).hit = 1
              /\ qcand[q][qmin[q]] = Populated(qcand[q][qmin[q]].prim_id, qtime[q], qray[q])
        /\ (qpc[q] = "done" /\ qresult[q] # 0) =>
              /\ qout[q].prim_id \in 0..(PrmGetPrimitiveCount - 1)
              /\ PrmRayIntersect(qout[q].prim_id, qtime[q], qray[q]).hit = 1
              /\ qout[q] = Populated(qout[q].prim_id, qtime[q], qray[q])

\* C29 witness: a query returned 0 after a leaf it visited reported a hit that
\* was rejected, so a candidate had been written.
C29_Witness ==
    /\ qpc[1] = "done"
    /\ qresult[1] = 0
    /\ qout[1] = CallerIsect
    /\ \E i \in LeafVisits(1) :
          PrmRayIntersect(heap[qvisited[1][i]].prim_id, qtime[1], qray[1]).hit = 1

(***************************************************************************)
(* C30: the build terminates                                               *)
(***************************************************************************)
\* C30: every call of build_bvh on the stack has a non-empty range, and the
\* range of a call lies within its caller's and is strictly smaller; so the
\* calls nest at most N deep, and a build over N primitives allocates at most
\* 2N - 1 nodes; every split of the build, equal centroids included, leaves
\* both parts non-empty.
C30_BuildRangesShrink ==
    /\ \A k \in DOMAIN bstack :
          /\ bstack[k].begin < bstack[k].end
          /\ k > 1 =>
                /\ bstack[k - 1].begin <= bstack[k].begin
                /\ bstack[k].end <= bstack[k - 1].end
                /\ bstack[k].end - bstack[k].begin < bstack[k - 1].end - bstack[k - 1].begin
    /\ Len(bstack) <= PrmGetPrimitiveCount
    /\ Len(heap) <= 2 * PrmGetPrimitiveCount - 1
    /\ Len(bsplits) <= PrmGetPrimitiveCount - 1
    /\ \A k \in DOMAIN bsplits :
          bsplits[k].begin < bsplits[k].median /\ bsplits[k].median < bsplits[k].end

\* C30 witness: a build over three primitives with equal centroids along
\* every axis has returned a tree.
C30_Witness ==
    /\ Built
    /\ PrmGetPrimitiveCount = 3
    /\ \A i \in 0..2 : \A a \in 0..2 : Centroid2(i, a) = Centroid2(0, a)
    /\ Cardinality(TreeNodes) = 5
====
